---------------------------- MODULE Spec2Model ----------------------------
(***************************************************************************)
(* sqleasy: a promise-based facade (Driver) over the sqlite3 callback API, *)
(* its argument normalizer (parseArgs) and its row stream (DatabaseStream).*)
(*                                                                         *)
(* Spec          the Driver facade and the engine connection               *)
(* BoundarySpec  calls of the Driver's methods with every argument shape   *)
(* StreamSpec    one DatabaseStream over a prepared statement              *)
(* InitSpec      sqleasy(fileName, schema), connect() and the Drivers made *)
(* CompatSpec    the generalized and the narrow Driver on pre-built queries*)
(*                                                                         *)
(* The sqlite3 engine and Node's Readable are the environment: they are    *)
(* modelled by what they do at the places the source calls them.           *)
(***************************************************************************)
EXTENDS Integers, Sequences, FiniteSets, TLC

(***************************************************************************)
(* Bounds                                                                  *)
(***************************************************************************)
\* calls made on the Driver in one behaviour of Spec
MaxCalls == 2
\* calls made on the Driver in one behaviour of BoundarySpec
MaxBoundaryCalls == 1
\* length of a values sequence or of the trailing arguments of a call
MaxValues == 1
\* rows of the result set a stream is opened over
MaxRows == 3
\* Drivers obtained from connect() in one behaviour of InitSpec
MaxDrivers == 2
\* calls made on the Drivers in one behaviour of InitSpec
MaxSharedCalls == 2
\* calls made on the Driver in one behaviour of CompatSpec
MaxCompatCalls == 1
\* Readable's highWaterMark (objectMode default 16); small so the buffer fills
HighWaterMark == 2

(***************************************************************************)
(* JavaScript values                                                       *)
(***************************************************************************)
\* JS null / undefined as a scalar parameter
Null == "<null>"
Scalars == {"Alice", Null}

RECURSIVE SeqsUpTo(_, _)
SeqsUpTo(S, n) ==
  IF n = 0 THEN {<<>>}
  ELSE LET shorter == SeqsUpTo(S, n - 1)
       IN  shorter \cup {Append(s, x) : s \in {t \in shorter : Len(t) = n - 1}, x \in S}

ValueSeqs == SeqsUpTo(Scalars, MaxValues)

\* the placeholders of each statement below: a pre-built query carries one
\* value per placeholder (or none, for a statement built without one)
Placeholders == 1

InsertText == "INSERT INTO test (name) VALUES (?)"
SelectText == "SELECT * FROM test WHERE name = ?"
Texts == {InsertText, SelectText}

\* A value passed as the `sql` argument.  ty is the shape of the value:
\*   "string"       a string                       (text holds it)
\*   "sql"          an object {text: string, values: array}
\*   "sqlNoValues"  an object {text: string}         (values is undefined)
\*   "null", "undefined", "number"
\*   "objNoText"    an object without a text property
\*   "objTextNum"   an object whose text is a number
JsVal(ty, text, values) == [ty |-> ty, text |-> text, values |-> values]
Str(t) == JsVal("string", t, <<>>)
SqlObj(t, vs) == JsVal("sql", t, vs)
SqlNoValues(t) == JsVal("sqlNoValues", t, <<>>)
InvalidInputs ==
  {JsVal(ty, "", <<>>) : ty \in {"null", "undefined", "number", "objNoText", "objTextNum"}}
SqlObjs == {SqlObj(t, vs) : t \in Texts, vs \in ValueSeqs}
ValidInputs ==
  {Str(t) : t \in Texts} \cup SqlObjs \cup {SqlNoValues(t) : t \in Texts}
SqlInputs == ValidInputs \cup InvalidInputs
\* The pre-built queries the calls of Spec are made with.
Queries == {SqlObj(t, vs) : t \in Texts, vs \in SeqsUpTo({"Alice"}, Placeholders)}

\* typeof v
TypeOf(v) ==
  CASE v.ty = "string" -> "string"
    [] v.ty = "number" -> "number"
    [] v.ty = "undefined" -> "undefined"
    [] OTHER -> "object"
\* 'text' in v, for an object v
HasText(v) == v.ty \in {"sql", "sqlNoValues", "objTextNum"}
\* typeof v.text
TypeOfText(v) ==
  CASE v.ty \in {"sql", "sqlNoValues"} -> "string"
    [] v.ty = "objTextNum" -> "number"
    [] OTHER -> "undefined"
\* v.values is an array (any array is truthy, also the empty one)
HasValues(v) == v.ty = "sql"

(***************************************************************************)
(* The argument normalizer                                                 *)
(***************************************************************************)
isSqlType_AnyObject(sql) ==
  IF sql.ty \in {"null", "undefined"} THEN FALSE
  ELSE TypeOf(sql) = "object"

isSqlType(sql) ==
  IF sql.ty \in {"null", "undefined"} THEN FALSE
  ELSE IF TypeOf(sql) = "object" /\ HasText(sql) /\ TypeOfText(sql) = "string" THEN TRUE
  ELSE FALSE

\* The result of parseArgs: ok = FALSE is `throw new Error('Invalid parameters')`.
Parsed(t, vs) == [ok |-> TRUE, text |-> t, values |-> vs]
InvalidParameters == [ok |-> FALSE, text |-> "", values |-> <<>>]

parseArgs_DropsValues(sql, values) ==
  IF TypeOf(sql) = "string" THEN Parsed(sql.text, <<>>)
  ELSE IF isSqlType(sql)
       THEN Parsed(sql.text, IF HasValues(sql) THEN sql.values ELSE <<>>)
  ELSE InvalidParameters

parseArgs_ObjectNoValues(sql, values) ==
  IF TypeOf(sql) = "string" THEN Parsed(sql.text, values)
  ELSE IF isSqlType(sql) THEN Parsed(sql.text, <<>>)
  ELSE InvalidParameters

parseArgs(sql, values) ==
  IF TypeOf(sql) = "string" THEN Parsed(sql.text, values)
  ELSE IF isSqlType(sql)
       THEN Parsed(sql.text, IF HasValues(sql) THEN sql.values ELSE <<>>)
  ELSE InvalidParameters


(***************************************************************************)
(* State of the facade specification                                       *)
(***************************************************************************)
VARIABLES
  conn,      \* the engine connection behind #db: "open" or "closed"
  table,     \* rows of table test, in insertion order
  lastID,    \* the connection's last insert rowid
  queue,     \* requests issued to the engine whose callback has not fired
  calls,     \* one record per call made on the Driver, in call order
  lastArgs,  \* the arguments of the latest call
  lastReq,   \* the engine request the latest call issued (NoReq: none)
  lastCb     \* the latest completion: the call, what the engine passed its callback

\* State of the initialization: sqleasy(fileName, schema) and connect()
VARIABLES
  phase,        \* sqleasy: "idle" not called, "opening" the open callback is due,
                \*          "schema" the schema's exec callback is due, "done"
  schema,       \* sqleasy was called with a schema script
  openErr,      \* what the open callback reported ("" while it has not fired)
  schemaErr,    \* what the schema's exec callback reported ("" while it has not fired)
  dbPromise,    \* the promise `db` is awaited from
  initPromise,  \* the promise sqleasy returned
  drivers,      \* #db of each Driver connect() has returned, in creation order
  via           \* the Driver each call was made on, in call order

initVars == <<phase, schema, openErr, schemaErr, dbPromise, initPromise>>

driverVars ==
  <<conn, table, lastID, queue, calls, lastArgs, lastReq, lastCb, initVars, drivers, via>>

\* State of the stream specification
VARIABLES
  resultSet,     \* the rows the prepared statement returns, in engine order
  cursor,        \* rows the statement has stepped over
  fetching,      \* stmt.get calls whose callback has not fired
  currentRow,    \* #currentRow
  finalized,     \* calls of stmt.finalize()
  buffer,        \* Readable: rows pushed and not yet read
  reading,       \* Readable: _read was called and has not pushed yet
  readingMore,   \* Readable: a maybeReadMore tick is scheduled
  ended,         \* Readable: push(null) was received
  endScheduled,  \* Readable: an endReadable tick is scheduled
  endEmitted,    \* Readable: 'end' was emitted
  destroyed,     \* Readable: destroy() was called
  errored,       \* Readable: destroy(err) recorded an error
  closeScheduled,\* Readable: the tick that emits 'error' and 'close' is scheduled
  closeEmitted,  \* Readable: 'close' was emitted
  errorEvents,   \* 'error' events emitted on the stream
  delivered,     \* rows the consumer has received
  destroyedAt,   \* rows the consumer had received when it called destroy (-1: it did not)
  fetchFailed    \* a fetch has failed

streamVars ==
  <<resultSet, cursor, fetching, currentRow, finalized, buffer, reading, readingMore,
    ended, endScheduled, endEmitted, destroyed, errored, closeScheduled, closeEmitted,
    errorEvents, delivered, destroyedAt, fetchFailed>>

vars == <<driverVars, streamVars>>

\* The err argument of an engine callback.
NoErr == "null"
Misuse == "SQLITE_MISUSE"
EngineError == "SQLITE_ERROR"
CantOpen == "SQLITE_CANTOPEN"
Busy == "SQLITE_BUSY"

\* A JS value a promise settles with or a callback receives.
Val(k, n, rows, err) == [k |-> k, n |-> n, rows |-> rows, err |-> err]
NoneV == Val("none", 0, <<>>, "")
NullV == Val("null", 0, <<>>, "")
UndefV == Val("undefined", 0, <<>>, "")
NumV(n) == Val("number", n, <<>>, "")
RowV(r) == Val("row", 0, <<r>>, "")
RowsV(rs) == Val("array", 0, rs, "")
ErrV(e) == Val("error", 0, <<>>, e)
UsageErrV(e) == Val("thrown", 0, <<>>, e)
\* the sqlite3 Database object of connection n; the connect function
DbV(n) == Val("db", n, <<>>, "")
FnV == Val("function", 0, <<>>, "")

\* What a call has come to: it threw synchronously, or it returned a promise
\* that is pending, resolved or rejected (stream: it returned a stream).
Outcome(st, val) == [st |-> st, val |-> val]
Pending == Outcome("pending", NoneV)
Resolved(v) == Outcome("resolved", v)
Rejected(e) == Outcome("rejected", ErrV(e))
Threw(e) == Outcome("threw", UsageErrV(e))
Returned == Outcome("returned", NoneV)
NoPromise == Outcome("none", NoneV)
\* resolve(v) / reject(e) on promise p: only the first settlement counts
Resolve(p, v) == IF p = Pending THEN Resolved(v) ELSE p
Reject(p, e) == IF p = Pending THEN Rejected(e) ELSE p

NoReq == [prim |-> "none", text |-> "", values |-> <<>>]
Req(prim, text, values) == [prim |-> prim, text |-> text, values |-> values]

(***************************************************************************)
(* The engine (sqlite3), as the Driver uses it                             *)
(***************************************************************************)
Max(S) == IF S = {} THEN 0 ELSE CHOOSE m \in S : \A x \in S : x <= m
Param(values, i) == IF Len(values) >= i THEN values[i] ELSE Null

\* INTEGER PRIMARY KEY: a new row gets the largest id in the table plus one.
NextRowId(t) == Max({t[i].id : i \in 1..Len(t)}) + 1

\* Rows the statement returns.  A NULL parameter matches no row.
Query(text, values, t) ==
  IF text = SelectText /\ Param(values, 1) # Null
  THEN SelectSeq(t, LAMBDA r : r.name = Param(values, 1))
  ELSE <<>>

\* The table after the statement ran, for call c.
Execute(text, values, t, c) ==
  IF text = InsertText
  THEN Append(t, [id |-> NextRowId(t), name |-> Param(values, 1), by |-> c])
  ELSE t

\* A request may complete once no exclusive request (close) issued before it
\* is outstanding; close itself waits for every request issued before it.
Completable(r) ==
  /\ r \in queue
  /\ \A q \in queue : q.call < r.call => (q.req.prim # "close" /\ r.req.prim # "close")

(***************************************************************************)
(* Driver: the completion callbacks                                        *)
(***************************************************************************)
RunCallback_IgnoreErr(err, stmtLastID) == Resolved(NumV(stmtLastID))

RunCallback_Changes(err, stmtLastID) ==
  IF err # NoErr THEN Rejected(err) ELSE Resolved(NumV(1))

RunCallback(err, stmtLastID) ==
  IF err # NoErr THEN Rejected(err) ELSE Resolved(NumV(stmtLastID))

ExecCallback_Swallow(err) == Resolved(UndefV)

ExecCallback(err) ==
  IF err # NoErr THEN Rejected(err) ELSE Resolved(UndefV)

OneCallback_RejectMissing(err, row) ==
  IF err # NoErr \/ row = UndefV THEN Rejected(IF err # NoErr THEN err ELSE "NOT_FOUND")
  ELSE Resolved(row)

OneCallback(err, row) ==
  IF err # NoErr THEN Rejected(err) ELSE Resolved(row)

ManyCallback_NoDefault(err, rows) ==
  IF err # NoErr THEN Rejected(err) ELSE Resolved(rows)

ManyCallback(err, rows) ==
  IF err # NoErr THEN Rejected(err)
  ELSE Resolved(IF rows \in {UndefV, NullV} THEN RowsV(<<>>) ELSE rows)

CloseCallback(err) ==
  IF err # NoErr THEN Rejected(err) ELSE Resolved(UndefV)

\* Narrow variant (run / exec / get / all)
NarrowRunCallback(err, stmtLastID) ==
  IF err # NoErr THEN Rejected(err) ELSE Resolved(NumV(stmtLastID))

NarrowExecCallback(err) ==
  IF err # NoErr THEN Rejected(err) ELSE Resolved(UndefV)

GetCallback(err, row) ==
  IF err # NoErr THEN Rejected(err) ELSE Resolved(row)

AllCallback(err, rows) ==
  IF err # NoErr THEN Rejected(err)
  ELSE Resolved(IF rows \in {UndefV, NullV} THEN RowsV(<<>>) ELSE rows)


(***************************************************************************)
(* Driver: the methods                                                     *)
(***************************************************************************)
\* A close of this connection has resolved.
Closed == \E i \in 1..Len(calls) : calls[i].op = "close" /\ calls[i].out.st = "resolved"

Call(op, text, out) ==
  [op |-> op, text |-> text, solo |-> queue = {}, afterClose |-> Closed,
   out |-> out, settles |-> 0]

\* The call is made on one of the Drivers (this); it throws before a promise
\* exists: nothing reaches the engine.
Throw(op, args, e) ==
  /\ calls' = Append(calls, Call(op, "", Threw(e)))
  /\ lastArgs' = args
  /\ lastReq' = NoReq
  /\ \E d \in 1..Len(drivers) : via' = Append(via, d)
  /\ UNCHANGED <<conn, table, lastID, queue, lastCb, initVars, drivers>>
  /\ UNCHANGED streamVars

\* The call returns a promise that is rejected before anything reaches the
\* engine: the engine method threw inside the promise's executor.
Refuse(op, args, e) ==
  /\ calls' = Append(calls, Call(op, "", Rejected(e)))
  /\ lastArgs' = args
  /\ lastReq' = NoReq
  /\ \E d \in 1..Len(drivers) : via' = Append(via, d)
  /\ UNCHANGED <<conn, table, lastID, queue, lastCb, initVars, drivers>>
  /\ UNCHANGED streamVars

\* The call hands one request to the engine and returns `out`.
Issue(op, args, req, out) ==
  /\ calls' = Append(calls, Call(op, req.text, out))
  /\ queue' = queue \cup {[call |-> Len(calls) + 1, req |-> req]}
  /\ lastArgs' = args
  /\ lastReq' = req
  /\ \E d \in 1..Len(drivers) : via' = Append(via, d)
  /\ UNCHANGED <<conn, table, lastID, lastCb, initVars, drivers>>
  /\ UNCHANGED streamVars

Args(sql, values) == [sql |-> sql, extra |-> values]

Dispatch(op, prim, sql, values, out) ==
  LET query == parseArgs(sql, values)
  IN  IF query.ok
      THEN Issue(op, Args(sql, values), Req(prim, query.text, query.values), out)
      ELSE Throw(op, Args(sql, values), "Invalid parameters")

Run(sql, values) ==
  /\ Len(calls) < MaxCalls
  /\ Dispatch("run", "run", sql, values, Pending)

One(sql, values) ==
  /\ Len(calls) < MaxCalls
  /\ Dispatch("one", "get", sql, values, Pending)

Many(sql, values) ==
  /\ Len(calls) < MaxCalls
  /\ Dispatch("many", "all", sql, values, Pending)

\* stream returns the DatabaseStream, whose constructor prepares the statement.
Stream(sql, values) ==
  /\ Len(calls) < MaxCalls
  /\ Dispatch("stream", "prepare", sql, values, Returned)

\* args.at(0) != null: the first trailing argument is neither null nor undefined
ExecRejectsArgs(args) == Len(args) > 0 /\ args[1] # Null

Exec(text, args) ==
  /\ Len(calls) < MaxCalls
  /\ IF ExecRejectsArgs(args)
     THEN Throw("exec", Args(Str(text), args), "TypeError")
     ELSE Issue("exec", Args(Str(text), args), Req("exec", text, <<>>), Pending)

\* exec given a pre-built query where the statement text is expected.  No
\* trailing argument: it does not throw.  db.exec requires a string statement
\* and throws a TypeError for the object, inside the executor.
ExecQuery(sql) ==
  /\ Len(calls) < MaxCalls
  /\ IF ExecRejectsArgs(<<>>)
     THEN Throw("exec", Args(sql, <<>>), "TypeError")
     ELSE Refuse("exec", Args(sql, <<>>), "TypeError")

Close ==
  /\ Len(calls) < MaxCalls
  /\ Issue("close", Args(JsVal("undefined", "", <<>>), <<>>), Req("close", "", <<>>), Pending)

\* [Symbol.asyncDispose]: await this.close()
AsyncDispose == Close

\* Narrow variant: the methods take a pre-built query and read its fields;
\* exec passes sql.text alone.
NarrowReq(prim, sql) ==
  Req(prim, sql.text, IF prim = "exec" THEN <<>> ELSE sql.values)

NarrowRun(sql) ==
  /\ Len(calls) < MaxCalls
  /\ Issue("narrowRun", Args(sql, <<>>), NarrowReq("run", sql), Pending)

NarrowExec(sql) ==
  /\ Len(calls) < MaxCalls
  /\ Issue("narrowExec", Args(sql, <<>>), NarrowReq("exec", sql), Pending)

Get(sql) ==
  /\ Len(calls) < MaxCalls
  /\ Issue("get", Args(sql, <<>>), NarrowReq("get", sql), Pending)

All(sql) ==
  /\ Len(calls) < MaxCalls
  /\ Issue("all", Args(sql, <<>>), NarrowReq("all", sql), Pending)

(***************************************************************************)
(* The engine completes a request and calls the Driver's callback          *)
(***************************************************************************)
Row(r) == [id |-> r.id, name |-> r.name]
Rows(rs) == [i \in 1..Len(rs) |-> Row(rs[i])]

\* The promise outcome the callback of call c produces for (err, result).
Settle(op, err, result) ==
  CASE op = "run" -> RunCallback(err, result.n)
    [] op = "exec" -> ExecCallback(err)
    [] op = "one" -> OneCallback(err, result)
    [] op = "many" -> ManyCallback(err, result)
    [] op = "close" -> CloseCallback(err)
    [] op = "narrowRun" -> NarrowRunCallback(err, result.n)
    [] op = "narrowExec" -> NarrowExecCallback(err)
    [] op = "get" -> GetCallback(err, result)
    [] op = "all" -> AllCallback(err, result)

\* A promise settles once: a later resolve or reject changes nothing.
Settled(c, out) ==
  IF calls[c].op = "stream" THEN calls
  ELSE [calls EXCEPT ![c].out = IF @.st = "pending" THEN out ELSE @,
                     ![c].settles = @ + 1]

\* What the engine passed the callback of `call`; matched: rows the statement matched.
Completion(call, err, result, matched) ==
  [call |-> call, err |-> err, result |-> result, matched |-> matched]
NoCompletion == Completion(0, NoErr, NoneV, 0)

\* The request fails: the connection is closed (misuse), or the engine
\* reports an error of its own.  The callback gets err and no result.
EngineFail(r) ==
  /\ Completable(r)
  /\ LET err == IF conn = "closed" THEN Misuse
                ELSE IF r.req.prim = "close" THEN Busy ELSE EngineError
     IN  /\ calls' = Settled(r.call, Settle(calls[r.call].op, err, UndefV))
         /\ lastCb' = Completion(r.call, err, UndefV, 0)
  /\ queue' = queue \ {r}
  /\ UNCHANGED <<conn, table, lastID, lastArgs, lastReq, initVars, drivers, via>>
  /\ UNCHANGED streamVars

\* The request succeeds on an open connection.  noValue: the engine's all
\* callback supplies no rows value for an empty result.
EngineOk(r, noValue) ==
  /\ Completable(r)
  /\ conn = "open"
  /\ LET prim == r.req.prim
         vals == IF prim = "exec" THEN <<>> ELSE r.req.values
         runs == prim \in {"run", "exec", "get", "all"}
         t2 == IF runs THEN Execute(r.req.text, vals, table, r.call) ELSE table
         id2 == IF Len(t2) > Len(table) THEN t2[Len(t2)].id ELSE lastID
         found == Rows(Query(r.req.text, vals, table))
         result == CASE prim = "run" -> NumV(id2)
                     [] prim = "get" -> IF found = <<>> THEN UndefV ELSE RowV(found[1])
                     [] prim = "all" -> IF noValue THEN UndefV ELSE RowsV(found)
                     [] OTHER -> UndefV
     IN  /\ noValue => (prim = "all" /\ found = <<>>)
         /\ table' = t2
         /\ lastID' = id2
         /\ conn' = IF prim = "close" THEN "closed" ELSE conn
         /\ calls' = Settled(r.call, Settle(calls[r.call].op, NoErr, result))
         /\ lastCb' = Completion(r.call, NoErr, result, Len(found))
  /\ queue' = queue \ {r}
  /\ UNCHANGED <<lastArgs, lastReq, initVars, drivers, via>>
  /\ UNCHANGED streamVars

(***************************************************************************)
(* sqleasy(fileName, schema): initialization, and connect()                *)
(***************************************************************************)
initUnchanged ==
  /\ UNCHANGED <<table, lastID, queue, calls, lastArgs, lastReq, lastCb, via>>
  /\ UNCHANGED streamVars

\* sqleasy is called: the promise is created and the database is opened.
Sqleasy(withSchema) ==
  /\ phase = "idle"
  /\ phase' = "opening"
  /\ schema' = withSchema
  /\ dbPromise' = Pending
  /\ initPromise' = Pending
  /\ UNCHANGED <<conn, openErr, schemaErr, drivers>>
  /\ initUnchanged

\* The open callback: `if (err) reject(err)`, then, without a schema, resolve(this).
OpenSettle(p, err, withSchema) ==
  LET p1 == IF err # NoErr THEN Reject(p, err) ELSE p
  IN  IF withSchema THEN p1 ELSE Resolve(p1, DbV(1))

\* The open callback fires.  With a schema it goes on to this.exec(schema, ...),
\* also after an error.
OpenCallback(err) ==
  /\ phase = "opening"
  /\ openErr' = err
  /\ conn' = IF err = NoErr THEN "open" ELSE "failed"
  /\ dbPromise' = OpenSettle(dbPromise, err, schema)
  /\ phase' = IF schema THEN "schema" ELSE "done"
  /\ UNCHANGED <<schema, schemaErr, initPromise, drivers>>
  /\ initUnchanged

SchemaSettle_IgnoreErr(p, err) == Resolve(p, DbV(1))

\* The schema's exec callback: `if (err) reject(err)`, then resolve(this).
SchemaSettle(p, err) ==
  LET p1 == IF err # NoErr THEN Reject(p, err) ELSE p
  IN  Resolve(p1, DbV(1))

\* The schema's exec callback fires.  The engine runs the script only on an
\* open database; on one that failed to open it reports misuse, if it calls
\* back at all (nothing makes this step happen).
SchemaCallback(err) ==
  /\ phase = "schema"
  /\ IF conn = "open" THEN err \in {NoErr, EngineError} ELSE err = Misuse
  /\ schemaErr' = err
  /\ dbPromise' = SchemaSettle(dbPromise, err)
  /\ phase' = "done"
  /\ UNCHANGED <<conn, schema, openErr, initPromise, drivers>>
  /\ initUnchanged

\* `const db = await ...` resumes: sqleasy returns connect, or the rejection
\* of the awaited promise becomes its own.
Resume ==
  /\ initPromise = Pending
  /\ dbPromise.st \in {"resolved", "rejected"}
  /\ initPromise' = IF dbPromise.st = "resolved" THEN Resolved(FnV) ELSE dbPromise
  /\ UNCHANGED <<conn, phase, schema, openErr, schemaErr, dbPromise, drivers>>
  /\ initUnchanged

NewDriver_Reopen(db) == DbV(Len(drivers) + 1)

\* new Driver(db): this.#db = db
NewDriver(db) == db

\* connect(), called by whoever the promise handed it to: new Driver(db)
Connect ==
  /\ initPromise = Resolved(FnV)
  /\ Len(drivers) < MaxDrivers
  /\ drivers' = Append(drivers, NewDriver(dbPromise.val))
  /\ UNCHANGED <<conn, initVars>>
  /\ initUnchanged

\* sqleasy has not been called.
Uninitialized ==
  /\ phase = "idle"
  /\ schema = FALSE
  /\ openErr = ""
  /\ schemaErr = ""
  /\ dbPromise = NoPromise
  /\ initPromise = NoPromise
  /\ drivers = <<>>
  /\ via = <<>>

\* `connect = await sqleasy(':memory:', schema)` succeeded and connect() was
\* called once: the Driver the tests work with.
Connected ==
  /\ phase = "done"
  /\ schema = TRUE
  /\ openErr = NoErr
  /\ schemaErr = NoErr
  /\ dbPromise = Resolved(DbV(1))
  /\ initPromise = Resolved(FnV)
  /\ drivers = <<NewDriver(DbV(1))>>
  /\ via = <<>>

(***************************************************************************)
(* DatabaseStream: one stream over a prepared statement                    *)
(***************************************************************************)
\* Readable state the fetch callbacks and the consumer leave alone
ticksUnchanged == UNCHANGED <<endScheduled, endEmitted, closeEmitted, finalized>>

OnEnd_Twice == finalized + 2

\* this.on('end', () => this.#stmt.finalize())
OnEnd == finalized + 1

Read_Prefetch == fetching + 2

\* _read(): one stmt.get is issued
Read == fetching + 1

\* Readable.destroy(err), the first time: the stream is destroyed and the tick
\* that emits 'error' (if err) and 'close' is scheduled.  Later calls do nothing.
Destroy(err) ==
  /\ destroyed' = TRUE
  /\ errored' = IF destroyed THEN errored ELSE err
  /\ closeScheduled' = IF destroyed THEN closeScheduled ELSE TRUE

\* Readable.read() from the consumer (the async iterator reads only while the
\* stream is not destroyed): it takes the head of the buffer if there is one,
\* calls _read if the buffer is below the mark and no read is outstanding, and
\* schedules 'end' when the stream has ended and the buffer is empty.
ConsumerRead ==
  /\ ~destroyed
  /\ LET atEnd == ended /\ buffer = <<>>
         doRead == ~ended /\ ~reading /\ ~errored
                     /\ (buffer = <<>> \/ Len(buffer) - 1 < HighWaterMark)
         rest == IF buffer = <<>> THEN buffer ELSE Tail(buffer)
     IN  /\ buffer' = rest
         /\ delivered' = IF buffer = <<>> THEN delivered ELSE Append(delivered, Head(buffer))
         /\ reading' = (reading \/ doRead)
         /\ fetching' = IF doRead THEN Read ELSE fetching
         /\ endScheduled' = (endScheduled \/ (~endEmitted /\ ended /\ rest = <<>>))
         /\ atEnd \/ doRead \/ buffer # <<>>
  /\ UNCHANGED <<resultSet, cursor, currentRow, finalized, readingMore, ended, endEmitted,
                 destroyed, errored, closeScheduled, closeEmitted, errorEvents,
                 destroyedAt, fetchFailed>>
  /\ UNCHANGED driverVars

\* The consumer calls stream.destroy().
ConsumerDestroy ==
  /\ ~destroyed
  /\ Destroy(FALSE)
  /\ destroyedAt' = Len(delivered)
  /\ UNCHANGED <<resultSet, cursor, fetching, currentRow, finalized, buffer, reading,
                 readingMore, ended, endScheduled, endEmitted, closeEmitted, errorEvents,
                 delivered, fetchFailed>>
  /\ UNCHANGED driverVars

\* Readable.push(row): ignored once the stream is destroyed or errored;
\* otherwise the row is buffered and a maybeReadMore tick is scheduled.
PushRow(row) ==
  /\ reading' = IF destroyed \/ errored THEN reading ELSE FALSE
  /\ buffer' = IF destroyed \/ errored THEN buffer ELSE Append(buffer, row)
  /\ readingMore' = IF destroyed \/ errored THEN readingMore ELSE TRUE

\* The row count after the callback got a row.
CountRow_Forget == currentRow
CountRow_AtDelivery == Len(delivered) + 1

CountRow == currentRow + 1

\* The stmt.get callback fires with a row: count it and push it.
FetchRow ==
  /\ fetching > 0
  /\ cursor < Len(resultSet)
  /\ fetching' = fetching - 1
  /\ cursor' = cursor + 1
  /\ currentRow' = CountRow
  /\ PushRow(resultSet[cursor + 1])
  /\ ticksUnchanged
  /\ UNCHANGED <<resultSet, ended, destroyed, errored, closeScheduled, errorEvents,
                 delivered, destroyedAt, fetchFailed>>
  /\ UNCHANGED driverVars

\* The stmt.get callback fires with no row: push(null) ends the stream.
FetchNone ==
  /\ fetching > 0
  /\ cursor = Len(resultSet)
  /\ fetching' = fetching - 1
  /\ reading' = FALSE
  /\ ended' = TRUE
  /\ ticksUnchanged
  /\ UNCHANGED <<resultSet, cursor, currentRow, buffer, readingMore, destroyed, errored,
                 closeScheduled, errorEvents, delivered, destroyedAt, fetchFailed>>
  /\ UNCHANGED driverVars

\* The stmt.get callback fires with an error: emit('error', err), destroy(err).
FetchError ==
  /\ fetching > 0
  /\ fetching' = fetching - 1
  /\ errorEvents' = errorEvents + 1
  /\ Destroy(TRUE)
  /\ fetchFailed' = TRUE
  /\ ticksUnchanged
  /\ UNCHANGED <<resultSet, cursor, currentRow, buffer, reading, readingMore, ended,
                 delivered, destroyedAt>>
  /\ UNCHANGED driverVars

\* The maybeReadMore tick: read(0) calls _read while the buffer is below the mark.
MaybeReadMoreTick ==
  /\ readingMore
  /\ readingMore' = FALSE
  /\ LET doRead == ~reading /\ ~ended /\ ~destroyed /\ ~errored
                     /\ Len(buffer) < HighWaterMark
     IN  /\ reading' = (reading \/ doRead)
         /\ fetching' = IF doRead THEN Read ELSE fetching
  /\ ticksUnchanged
  /\ UNCHANGED <<resultSet, cursor, currentRow, buffer, ended, destroyed, errored,
                 closeScheduled, errorEvents, delivered, destroyedAt, fetchFailed>>
  /\ UNCHANGED driverVars

\* The endReadable tick: 'end' is emitted (the end listener finalizes the
\* statement) and autoDestroy destroys the stream.
EndTick ==
  /\ endScheduled
  /\ endScheduled' = FALSE
  /\ LET emit == ~errored /\ ~closeEmitted /\ ~endEmitted /\ buffer = <<>>
     IN  /\ endEmitted' = (endEmitted \/ emit)
         /\ finalized' = IF emit THEN OnEnd ELSE finalized
         /\ IF emit THEN Destroy(FALSE) ELSE UNCHANGED <<destroyed, errored, closeScheduled>>
  /\ UNCHANGED <<resultSet, cursor, fetching, currentRow, buffer, reading, readingMore,
                 ended, closeEmitted, errorEvents, delivered, destroyedAt, fetchFailed>>
  /\ UNCHANGED driverVars

\* The tick after destroy: 'error' is emitted if destroy got an error, then 'close'.
CloseTick ==
  /\ closeScheduled
  /\ closeScheduled' = FALSE
  /\ errorEvents' = IF errored THEN errorEvents + 1 ELSE errorEvents
  /\ closeEmitted' = TRUE
  /\ UNCHANGED <<resultSet, cursor, fetching, currentRow, finalized, buffer, reading,
                 readingMore, ended, endScheduled, endEmitted, destroyed, errored,
                 delivered, destroyedAt, fetchFailed>>
  /\ UNCHANGED driverVars

\* No stream exists (the facade specification).
NoStream ==
  /\ resultSet = <<>>
  /\ cursor = 0
  /\ fetching = 0
  /\ currentRow = 0
  /\ finalized = 0
  /\ buffer = <<>>
  /\ reading = FALSE
  /\ readingMore = FALSE
  /\ ended = FALSE
  /\ endScheduled = FALSE
  /\ endEmitted = FALSE
  /\ destroyed = FALSE
  /\ errored = FALSE
  /\ closeScheduled = FALSE
  /\ closeEmitted = FALSE
  /\ errorEvents = 0
  /\ delivered = <<>>
  /\ destroyedAt = -1
  /\ fetchFailed = FALSE

(***************************************************************************)
(* The facade specification                                                *)
(***************************************************************************)
NoArgs == Args(JsVal("undefined", "", <<>>), <<>>)

DriverInit ==
  /\ conn = "open"
  /\ table = <<>>
  /\ lastID = 0
  /\ queue = {}
  /\ calls = <<>>
  /\ lastArgs = NoArgs
  /\ lastReq = NoReq
  /\ lastCb = NoCompletion
  /\ Connected

Next ==
  \/ \E sql \in Queries : Run(sql, <<>>)
  \/ \E sql \in Queries : One(sql, <<>>)
  \/ \E sql \in Queries : Many(sql, <<>>)
  \/ \E sql \in Queries : Stream(sql, <<>>)
  \/ \E text \in Texts : Exec(text, <<>>)
  \/ Close
  \/ \E sql \in Queries : Get(sql)
  \/ \E sql \in Queries : All(sql)
  \/ \E r \in queue : EngineFail(r)
  \/ \E r \in queue, noValue \in BOOLEAN : EngineOk(r, noValue)

Init == DriverInit /\ NoStream

Spec == Init /\ [][Next]_vars

(***************************************************************************)
(* The call boundary: every shape of arguments, few calls                  *)
(***************************************************************************)
BoundaryOpen == Len(calls) < MaxBoundaryCalls

BoundaryNext ==
  \/ \E sql \in SqlInputs, values \in ValueSeqs : BoundaryOpen /\ Run(sql, values)
  \/ \E sql \in SqlInputs, values \in ValueSeqs : BoundaryOpen /\ One(sql, values)
  \/ \E sql \in SqlInputs, values \in ValueSeqs : BoundaryOpen /\ Many(sql, values)
  \/ \E sql \in SqlInputs, values \in ValueSeqs : BoundaryOpen /\ Stream(sql, values)
  \/ \E text \in Texts, args \in ValueSeqs : BoundaryOpen /\ Exec(text, args)
  \/ \E r \in queue : EngineFail(r)
  \/ \E r \in queue : EngineOk(r, FALSE)

BoundarySpec == Init /\ [][BoundaryNext]_vars

(***************************************************************************)
(* The stream specification: a stream over a result set of 0..MaxRows rows *)
(***************************************************************************)
\* The state after `new DatabaseStream(db, text, ...values)`.
StreamInit ==
  /\ DriverInit
  /\ resultSet \in {[i \in 1..n |-> i] : n \in 0..MaxRows}
  /\ cursor = 0
  /\ fetching = 0
  /\ currentRow = 0
  /\ finalized = 0
  /\ buffer = <<>>
  /\ reading = FALSE
  /\ readingMore = FALSE
  /\ ended = FALSE
  /\ endScheduled = FALSE
  /\ endEmitted = FALSE
  /\ destroyed = FALSE
  /\ errored = FALSE
  /\ closeScheduled = FALSE
  /\ closeEmitted = FALSE
  /\ errorEvents = 0
  /\ delivered = <<>>
  /\ destroyedAt = -1
  /\ fetchFailed = FALSE

StreamNext ==
  \/ ConsumerRead
  \/ ConsumerDestroy
  \/ FetchRow
  \/ FetchNone
  \/ FetchError
  \/ MaybeReadMoreTick
  \/ EndTick
  \/ CloseTick

StreamSpec == StreamInit /\ [][StreamNext]_vars

(***************************************************************************)
(* The initialization specification: from the call of sqleasy, through     *)
(* connect(), to calls on the Drivers it returned                          *)
(***************************************************************************)
InsertAlice == SqlObj(InsertText, <<"Alice">>)
SelectAlice == SqlObj(SelectText, <<"Alice">>)

InitInit ==
  /\ conn = "unopened"
  /\ table = <<>>
  /\ lastID = 0
  /\ queue = {}
  /\ calls = <<>>
  /\ lastArgs = NoArgs
  /\ lastReq = NoReq
  /\ lastCb = NoCompletion
  /\ Uninitialized
  /\ NoStream

SharedOpen == Len(calls) < MaxSharedCalls

InitNext ==
  \/ \E withSchema \in BOOLEAN : Sqleasy(withSchema)
  \/ \E err \in {NoErr, CantOpen} : OpenCallback(err)
  \/ \E err \in {NoErr, EngineError, Misuse} : SchemaCallback(err)
  \/ Resume
  \/ Connect
  \/ SharedOpen /\ Run(InsertAlice, <<>>)
  \/ SharedOpen /\ Many(SelectAlice, <<>>)
  \/ SharedOpen /\ Close
  \/ SharedOpen /\ AsyncDispose
  \/ \E r \in queue : EngineFail(r)
  \/ \E r \in queue : EngineOk(r, FALSE)

InitSpec == InitInit /\ [][InitNext]_vars

(***************************************************************************)
(* The compatibility specification: the generalized and the narrow Driver, *)
(* each called with a pre-built query                                      *)
(***************************************************************************)
CompatOpen == Len(calls) < MaxCompatCalls

CompatNext ==
  \/ \E sql \in SqlObjs : CompatOpen /\ Run(sql, <<>>)
  \/ \E sql \in SqlObjs : CompatOpen /\ ExecQuery(sql)
  \/ \E sql \in SqlObjs : CompatOpen /\ One(sql, <<>>)
  \/ \E sql \in SqlObjs : CompatOpen /\ Many(sql, <<>>)
  \/ \E sql \in SqlObjs : CompatOpen /\ NarrowRun(sql)
  \/ \E sql \in SqlObjs : CompatOpen /\ NarrowExec(sql)
  \/ \E sql \in SqlObjs : CompatOpen /\ Get(sql)
  \/ \E sql \in SqlObjs : CompatOpen /\ All(sql)
  \/ \E r \in queue : EngineFail(r)
  \/ \E r \in queue, noValue \in BOOLEAN : EngineOk(r, noValue)

CompatSpec == Init /\ [][CompatNext]_vars


(***************************************************************************)
(* Properties of the facade                                                *)
(***************************************************************************)
CallIds == 1..Len(calls)
LastCall == calls[Len(calls)]
Outstanding(i) == \E r \in queue : r.call = i

\* C1: an operation (run, exec, one, many, close) made after a close of the
\* connection has resolved never resolves and rejects with nothing but the
\* engine's closed-connection (misuse) error; while its promise is pending its
\* request is still with the engine, which is to call back.
C1_AfterCloseRejects ==
  \A i \in CallIds :
    (calls[i].afterClose /\ calls[i].op \in {"run", "exec", "one", "many", "close"}) =>
      \/ calls[i].out = Rejected(Misuse)
      \/ calls[i].out = Pending /\ Outstanding(i)

C1_Witness ==
  /\ \E i \in CallIds : calls[i].op = "close" /\ calls[i].out.st = "resolved"
  /\ \E i \in CallIds :
       calls[i].afterClose /\ calls[i].op = "run" /\ calls[i].out = Rejected(Misuse)

InsertRun(i) ==
  calls[i].op = "run" /\ calls[i].text = InsertText /\ calls[i].out.st = "resolved"

\* C6: a run of an INSERT resolves to the integer id of the row that statement
\* inserted; two such runs resolve to distinct ids, the one made after the other
\* had settled to the larger, and when every call so far was such a run, made
\* after the ones before it had settled, the n-th resolves to n.
C6_RunResolvesInsertedId ==
  \A i \in CallIds :
    InsertRun(i) =>
      /\ calls[i].out.val.k = "number"
      /\ \E j \in 1..Len(table) : table[j].by = i /\ table[j].id = calls[i].out.val.n
      /\ \A k \in CallIds :
           (k # i /\ InsertRun(k)) => calls[k].out.val.n # calls[i].out.val.n
      /\ \A k \in CallIds :
           (k < i /\ InsertRun(k) /\ calls[i].solo) => calls[k].out.val.n < calls[i].out.val.n
      /\ (\A k \in CallIds : k <= i + 1 => (calls[k].solo /\ (k <= i => InsertRun(k))))
           => calls[i].out.val.n = i

C6_Witness ==
  /\ Len(calls) >= 2
  /\ InsertRun(1) /\ InsertRun(2) /\ calls[2].solo
  /\ calls[1].out.val.n = 1 /\ calls[2].out.val.n = 2

\* The latest completion was a successful one of call i's query, which matched no row.
MatchedNothing(ops) ==
  /\ lastCb.call # 0
  /\ calls[lastCb.call].op \in ops
  /\ lastCb.err = NoErr
  /\ lastCb.matched = 0

\* C7: one (get in the narrow variant) on a query that matches no row resolves
\* with undefined; it does not reject.
C7_OneMissingIsUndefined ==
  MatchedNothing({"one", "get"}) => calls[lastCb.call].out = Resolved(UndefV)

C7_Witness ==
  /\ MatchedNothing({"one"})
  /\ calls[lastCb.call].text = SelectText
  /\ calls[lastCb.call].out = Resolved(UndefV)

\* C8: many (all in the narrow variant) on a query that matches no row resolves
\* to the empty array, also when the engine's callback supplied no rows value;
\* whenever it resolves its value is an array.
C8_ManyIsArray ==
  /\ MatchedNothing({"many", "all"}) => calls[lastCb.call].out = Resolved(RowsV(<<>>))
  /\ \A i \in CallIds :
       (calls[i].op \in {"many", "all"} /\ calls[i].out.st = "resolved") =>
         calls[i].out.val.k = "array"

C8_Witness ==
  /\ MatchedNothing({"many"})
  /\ lastCb.result = UndefV
  /\ calls[lastCb.call].out = Resolved(RowsV(<<>>))

Awaitable == {"run", "exec", "one", "many", "close"}
Requests(i) == {r \in queue : r.call = i}

\* C11: a call of run, exec, one, many or close that returned a promise has
\* exactly one request with the engine until its callback fires and none
\* afterwards (nothing is issued again); its promise is pending until that
\* callback fires, which happens once, and is then rejected with the error
\* the callback reported, unchanged, or resolved if it reported none.
C11_SettlesOnce ==
  /\ \A i \in CallIds :
       (calls[i].op \in Awaitable /\ calls[i].out.st # "threw") =>
         /\ Cardinality(Requests(i)) + calls[i].settles = 1
         /\ (calls[i].out = Pending) <=> (calls[i].settles = 0)
         /\ calls[i].out.st \in {"pending", "resolved", "rejected"}
  /\ (lastCb.call # 0 /\ calls[lastCb.call].op \in Awaitable) =>
       IF lastCb.err # NoErr
       THEN calls[lastCb.call].out = Rejected(lastCb.err)
       ELSE calls[lastCb.call].out.st = "resolved"

C11_Witness ==
  /\ lastCb.call # 0
  /\ calls[lastCb.call].op = "exec"
  /\ lastCb.err = EngineError
  /\ calls[lastCb.call].out = Rejected(EngineError)
  /\ calls[lastCb.call].settles = 1
  /\ Requests(lastCb.call) = {}

\* C14: a stream call whose statement preparation failed has thrown the
\* engine's error to its caller.
C14_PrepareFailureThrows ==
  (lastCb.call # 0 /\ calls[lastCb.call].op = "stream" /\ lastCb.err # NoErr) =>
    /\ calls[lastCb.call].out.st = "threw"
    /\ calls[lastCb.call].out.val.err = lastCb.err


(***************************************************************************)
(* Properties of the initialization                                        *)
(***************************************************************************)
Failed(err) == err \notin {"", NoErr}
\* the first error the engine reported to sqleasy's callbacks
FirstError == IF Failed(openErr) THEN openErr ELSE schemaErr

\* C12: with a schema script, sqleasy's promise (and the promise of the
\* connection it awaits) is resolved only when the open callback and the
\* schema's exec callback have both reported success; without one, only when
\* the open callback has.  Once either callback has reported an error the
\* awaited promise is rejected with the first error reported, sqleasy's
\* promise is rejected with it as soon as it settles and is never resolved,
\* and no Driver exists.
C12_ResolvesAfterSchema ==
  /\ (dbPromise.st = "resolved" \/ initPromise.st = "resolved") =>
       /\ openErr = NoErr
       /\ schema => schemaErr = NoErr
       /\ dbPromise = Resolved(DbV(1))
  /\ (Failed(openErr) \/ Failed(schemaErr)) =>
       /\ dbPromise = Rejected(FirstError)
       /\ initPromise \in {Pending, Rejected(FirstError)}
       /\ drivers = <<>>

C12_Witness ==
  /\ schema
  /\ openErr = NoErr
  /\ schemaErr = EngineError
  /\ initPromise = Rejected(EngineError)

\* The call made on one Driver after a close made on another had resolved.
ClosedByOther(i, j) ==
  /\ calls[i].op = "close" /\ calls[i].out.st = "resolved"
  /\ calls[j].afterClose
  /\ via[j] # via[i]

\* C13: every Driver connect() has returned holds the one connection the
\* initialization opened; a run, many or close made on one Driver after a
\* close (or dispose) made on another has resolved is rejected with the
\* closed-connection error (or its request is still with the engine); and a
\* many that succeeds returns every row written so far, through whichever
\* Driver it was written.
C13_DriversShareConnection ==
  /\ \A d \in 1..Len(drivers) : drivers[d] = DbV(1) /\ drivers[d] = dbPromise.val
  /\ \A i, j \in CallIds :
       ClosedByOther(i, j) =>
         \/ calls[j].out = Rejected(Misuse)
         \/ calls[j].out = Pending /\ Outstanding(j)
  /\ (lastCb.call # 0 /\ calls[lastCb.call].op = "many" /\ lastCb.err = NoErr) =>
       /\ calls[lastCb.call].out = Resolved(RowsV(Rows(table)))
       /\ \A k \in 1..Len(table) :
            \E m \in 1..Len(lastCb.result.rows) : lastCb.result.rows[m] = Row(table[k])

\* after a close through Driver 1 had resolved, a many on Driver 2 was rejected
C13_Witness ==
  /\ Len(drivers) >= 2
  /\ \E c, x \in CallIds :
       /\ ClosedByOther(c, x) /\ via[c] = 1 /\ via[x] = 2
       /\ calls[x].op = "many"
       /\ calls[x].out = Rejected(Misuse)


(***************************************************************************)
(* Properties of the call boundary                                         *)
(***************************************************************************)
Normalizing == {"run", "one", "many", "stream"}
Primitive(op) ==
  CASE op = "run" -> "run"
    [] op = "one" -> "get"
    [] op = "many" -> "all"
    [] op = "stream" -> "prepare"
    [] OTHER -> op
\* The latest call issued nothing to the engine.
NothingIssued == lastReq = NoReq /\ ~Outstanding(Len(calls))
\* The canonical {text, values} as an engine request of the latest call.
AsRequest(query) == Req(Primitive(LastCall.op), query.text, query.values)

\* C4: exec called with any trailing argument beyond the statement text throws
\* a usage error (TypeError) at the call, and issues no request to the engine.
C4_ExecRejectsExtraArgs ==
  (calls # <<>> /\ LastCall.op = "exec" /\ lastArgs.extra # <<>>) =>
    LastCall.out = Threw("TypeError") /\ NothingIssued

\* C9: the request run, one, many and stream issue for the object shape
\* {text: t, values: vs} is the normalizer's result for the raw shape (t, ...vs),
\* and the request they issue for the raw shape is its result for the object
\* shape; an object without values and a string without trailing arguments
\* both give the empty values sequence.
C9_ShapeEquivalence ==
  (calls # <<>> /\ LastCall.op \in Normalizing) =>
    LET sql == lastArgs.sql
    IN  /\ sql.ty = "sql" =>
             /\ parseArgs(Str(sql.text), sql.values).ok
             /\ lastReq = AsRequest(parseArgs(Str(sql.text), sql.values))
        /\ sql.ty = "string" =>
             /\ parseArgs(SqlObj(sql.text, lastArgs.extra), <<>>).ok
             /\ lastReq = AsRequest(parseArgs(SqlObj(sql.text, lastArgs.extra), <<>>))
        /\ (sql.ty = "sqlNoValues" \/ (sql.ty = "string" /\ lastArgs.extra = <<>>)) =>
             lastReq = Req(Primitive(LastCall.op), sql.text, <<>>)

C9_Witness ==
  /\ calls # <<>> /\ LastCall.op = "run"
  /\ lastArgs.sql.ty = "string" /\ Len(lastArgs.extra) = MaxValues
  /\ lastReq = Req("run", lastArgs.sql.text, lastArgs.extra)
  /\ lastReq = AsRequest(parseArgs(SqlObj(lastArgs.sql.text, lastArgs.extra), <<>>))

\* C10: run, one, many and stream called with an input that is neither a string
\* nor an object with a string text throw the normalizer's 'Invalid parameters'
\* error at the call and issue no request to the engine.
C10_InvalidInputThrows ==
  (calls # <<>> /\ LastCall.op \in Normalizing /\ lastArgs.sql \in InvalidInputs) =>
    /\ ~parseArgs(lastArgs.sql, lastArgs.extra).ok
    /\ LastCall.out = Threw("Invalid parameters")
    /\ NothingIssued

C10_Witness ==
  /\ calls # <<>> /\ LastCall.op = "stream"
  /\ lastArgs.sql.ty = "objNoText"
  /\ LastCall.out = Threw("Invalid parameters")
  /\ queue = {}


(***************************************************************************)
(* Properties of the two variants                                          *)
(***************************************************************************)
\* the narrow method that corresponds to a generalized one
NarrowOp(op) ==
  CASE op = "run" -> "narrowRun"
    [] op = "exec" -> "narrowExec"
    [] op = "one" -> "get"
    [] op = "many" -> "all"

\* The latest call, a generalized `ops` method given a pre-built query, sent
\* the engine the request the narrow method sends for that query.
SameRequest(ops) ==
  (calls # <<>> /\ LastCall.op \in ops /\ lastArgs.sql.ty = "sql") =>
    lastReq = NarrowReq(Primitive(LastCall.op), lastArgs.sql)

\* The latest completion, of a generalized `ops` method, settled the promise
\* as the narrow method's callback settles its own on the same completion.
SameOutcome(ops) ==
  (lastCb.call # 0 /\ calls[lastCb.call].op \in ops) =>
    calls[lastCb.call].out = Settle(NarrowOp(calls[lastCb.call].op), lastCb.err, lastCb.result)

\* C18 (as stated): for a pre-built query {text, values}, the generalized run,
\* exec, one and many send the engine the primitive, text and values the narrow
\* run, exec, get and all send, and settle with the same outcome.
C18_BackwardCompatible ==
  /\ SameRequest({"run", "exec", "one", "many"})
  /\ SameOutcome({"run", "exec", "one", "many"})

\* C18 (amended): for a pre-built query {text, values}, the generalized run,
\* one and many send the engine the primitive, text and values the narrow run,
\* get and all send, and settle with the same outcome.
C18_CompatibleButExec ==
  /\ SameRequest({"run", "one", "many"})
  /\ SameOutcome({"run", "one", "many"})

C18_Witness ==
  /\ calls # <<>> /\ LastCall.op = "run"
  /\ lastArgs.sql = SqlObj(InsertText, <<"Alice">>)
  /\ lastReq = Req("run", InsertText, <<"Alice">>)
  /\ lastCb.call = Len(calls)
  /\ LastCall.out = Resolved(NumV(1))


(***************************************************************************)
(* Properties of the stream                                                *)
(***************************************************************************)
\* Nothing is left to happen: no fetch is outstanding, no tick is scheduled and
\* the consumer has stopped reading (the stream is destroyed).
StreamQuiescent ==
  /\ destroyed
  /\ fetching = 0
  /\ ~readingMore /\ ~endScheduled /\ ~closeScheduled

\* exhausted, errored, or destroyed by the caller
Exhausted == ended
Terminal == Exhausted \/ errored \/ destroyedAt >= 0

\* C2: when the consumer calls destroy after having received exactly k < N rows
\* (and no fetch fails), no further row is delivered, no error is raised, and
\* getProcessedRowCount() is k.
C2_DestroyLeavesCountAtK ==
  (destroyedAt >= 0 /\ destroyedAt < Len(resultSet) /\ ~fetchFailed) =>
    /\ Len(delivered) = destroyedAt
    /\ errorEvents = 0
    /\ currentRow = destroyedAt

\* C3: a stream that has signalled its end has delivered exactly the rows of the
\* result set, in the engine's order, without an error, and its processed-row
\* counter is N; and a stream that was read until nothing is left to happen,
\* without a failed fetch or a destroy by the consumer, has signalled its end.
C3_StreamDeliversAll ==
  /\ endEmitted =>
       /\ delivered = resultSet
       /\ currentRow = Len(resultSet)
       /\ errorEvents = 0
  /\ (StreamQuiescent /\ destroyedAt < 0 /\ ~fetchFailed) => endEmitted

C3_Witness ==
  /\ endEmitted
  /\ Len(resultSet) = MaxRows
  /\ delivered = resultSet
  /\ currentRow = MaxRows

\* C5: once a stream is exhausted, errored or destroyed, and nothing is left to
\* happen, its prepared statement has been finalized.
C5_TerminalFinalizes ==
  (Terminal /\ StreamQuiescent) => finalized > 0

\* C15: the prepared statement's finalize is invoked at most once, whatever
\* pulls, fetch completions, fetch errors and destroy calls have happened.
C15_FinalizeAtMostOnce == finalized <= 1

C15_Witness ==
  /\ finalized = 1
  /\ closeEmitted
  /\ Len(resultSet) = MaxRows

\* C16: at most one single-row fetch is outstanding against the prepared
\* statement; a fetch is issued only when none is outstanding, and none is
\* issued once the stream is exhausted or destroyed.
C16_OneFetchAtATime ==
  /\ [](fetching <= 1)
  /\ [][fetching' > fetching => (fetching = 0 /\ ~Exhausted /\ ~destroyed)]_vars

C16_Witness ==
  /\ fetching = 1
  /\ cursor >= 2
  /\ buffer # <<>>

\* C17: once a fetch has failed the stream is terminated and exactly one
\* 'error' event has been emitted on it.
C17_FetchErrorDeliveredOnce ==
  fetchFailed =>
    /\ destroyed
    /\ errorEvents = 1

\* C19: the processed-row counter equals the number of fetch callbacks that
\* have returned a row, is at least the number of rows delivered to the
\* consumer, never decreases, and is unchanged by a step in which no fetch
\* returns a row (a fetch that returns no row or an error among them).
C19_CounterCountsFetchedRows ==
  /\ [](currentRow = cursor /\ currentRow >= Len(delivered))
  /\ [][currentRow' >= currentRow /\ (cursor' = cursor => currentRow' = currentRow)]_vars

C19_Witness ==
  /\ Exhausted
  /\ currentRow = MaxRows
  /\ Len(delivered) < currentRow

=============================================================================
